---- MODULE Spec2Model ----
(***************************************************************************)
(* Model of OffsetList (src/src/offset_list.rs) and its ordered-map        *)
(* helpers (src/src/offset_list/tree_utils.rs).                            *)
(*                                                                         *)
(* A BTreeMap<u32, u32> is a function from a finite set of naturals        *)
(* (its keys) to naturals.  Every operation of OffsetList is an operator   *)
(* from a list value (a record of the three trees and a panic flag) to    *)
(* the list value it leaves behind, and one action applies it.  A Rust    *)
(* panic is fatal: it sets `panicked`, keeps the trees as they were at    *)
(* the point of the panic, and no further call is made on the list.       *)
(***************************************************************************)
EXTENDS Integers, Sequences, FiniteSets, TLC

\* ------------------------------------------------------------------------
\* Bounds of the model.
\* ------------------------------------------------------------------------
\* largest item index passed to insert / insert_spots / the queries
MaxIndex == 3
\* largest item size passed to insert / insert_spots
MaxSize == 2
\* longest list of spots passed to insert_spots
MaxSpots == 2
\* largest pixel offset passed to range
MaxOffset == 6
\* number of mutating calls (insert, insert_spots) made on one list when
\* their arguments are arbitrary
MaxCalls == 2
\* number of mutating calls made on one list when every insert has
\* start <= end and every size is above 0
MaxInserts == 3

Indices == 0..MaxIndex
Sizes == 0..MaxSize
Offsets == 0..MaxOffset

\* std::u32::MAX.  TLC's integers are 32-bit signed, so the constant is
\* represented by the largest value TLC can hold; the model only compares it
\* with, and takes its minimum against, indices that are far below it.
LAST_RANGE_END == 2147483647

\* ------------------------------------------------------------------------
\* BTreeMap<u32, u32>
\* ------------------------------------------------------------------------
EmptyTree == [k \in {} |-> 0]

TreeInsert(tree, key, value) ==
    [k \in (DOMAIN tree) \cup {key} |-> IF k = key THEN value ELSE tree[k]]

TreeRemove(tree, key) ==
    [k \in (DOMAIN tree) \ {key} |-> tree[k]]

SetMin(S) == CHOOSE x \in S : \A y \in S : x <= y
SetMax(S) == CHOOSE x \in S : \A y \in S : x >= y

\* the elements of a finite set of numbers in increasing order: the order in
\* which a BTreeMap iterates over its keys
RECURSIVE SortedKeys(_)
SortedKeys(S) ==
    IF S = {} THEN << >>
    ELSE LET m == SetMin(S) IN << m >> \o SortedKeys(S \ {m})

\* ------------------------------------------------------------------------
\* tree_utils.rs
\* ------------------------------------------------------------------------
\* tree.range(..=start) is non-empty: lte does not panic
HasLte(tree, start) == \E k \in DOMAIN tree : k <= start

\* the key of the entry lte returns (its value is tree[lte(tree, start)])
lte(tree, start) == SetMax({k \in DOMAIN tree : k <= start})

\* ranges_within panics when lte does, and when the floor key lies above
\* `end` (BTreeMap::range panics on a range whose start is above its end)
RangesWithinPanics(tree, start, end) ==
    \/ ~HasLte(tree, start)
    \/ lte(tree, start) > end

ranges_within(tree, start, end) ==
    LET closest_lte == lte(tree, start)
        nodes == SortedKeys({k \in DOMAIN tree : closest_lte <= k /\ k <= end})
    IN [i \in 1..Len(nodes) |->
          [start |-> nodes[i],
           end   |-> IF i < Len(nodes) THEN nodes[i + 1] - 1 ELSE LAST_RANGE_END,
           size  |-> tree[nodes[i]]]]

\* ------------------------------------------------------------------------
\* OffsetList
\* ------------------------------------------------------------------------
new == [size_tree |-> EmptyTree, offset_tree |-> EmptyTree,
        pixel_tree |-> EmptyTree, panicked |-> FALSE]

Panic(self) == [self EXCEPT !.panicked = TRUE]

\* the loop of update_offset_tree without `prev_size = size`: every offset is
\* computed from the size of the run the pass started at
RECURSIVE UpdateLoopKeepsSize(_, _, _, _, _, _)
UpdateLoopKeepsSize(self, updated, i, prev_index, prev_size, prev_offset) ==
    IF i > Len(updated) THEN self
    ELSE LET index == updated[i]
             offset == (index - prev_index) * prev_size + prev_offset
         IN UpdateLoopKeepsSize([self EXCEPT
                                   !.offset_tree = TreeInsert(@, index, offset),
                                   !.pixel_tree = TreeInsert(@, offset, index)],
                                updated, i + 1, index, prev_size, offset)

\* the `for (index, size) in updated` loop of update_offset_tree
RECURSIVE UpdateLoop(_, _, _, _, _, _)
UpdateLoop(self, updated, i, prev_index, prev_size, prev_offset) ==
    IF i > Len(updated) THEN self
    ELSE LET index == updated[i]
             offset == (index - prev_index) * prev_size + prev_offset
         IN UpdateLoop([self EXCEPT
                          !.offset_tree = TreeInsert(@, index, offset),
                          !.pixel_tree = TreeInsert(@, offset, index)],
                       updated, i + 1, index, self.size_tree[index], offset)

update_offset_tree(self, start) ==
    LET lte_key == IF start = 0 THEN 0 ELSE start - 1
        updated == SortedKeys({k \in DOMAIN self.size_tree : k >= lte_key})
    IN IF ~HasLte(self.size_tree, lte_key) THEN Panic(self)
       ELSE LET start_index == lte(self.size_tree, lte_key)
                start_size == self.size_tree[start_index]
                prev_offset == IF start_index \in DOMAIN self.offset_tree
                               THEN self.offset_tree[start_index] ELSE 0
            IN UpdateLoop(self, updated, 1, start_index, start_size, prev_offset)

remove_index(self, index) ==
    LET removed == [self EXCEPT !.size_tree = TreeRemove(@, index)]
    IN IF index \notin DOMAIN self.offset_tree THEN Panic(removed)
       ELSE LET pixel == self.offset_tree[index]
            IN [removed EXCEPT !.offset_tree = TreeRemove(@, index),
                               !.pixel_tree = TreeRemove(@, pixel)]

\* the `for spot in spots.iter()` loop of insert_spots
RECURSIVE SpotsLoop(_, _, _, _)
SpotsLoop(size_tree, spots, i, size) ==
    IF i > Len(spots) THEN size_tree
    ELSE SpotsLoop(TreeInsert(TreeInsert(size_tree, spots[i], size), spots[i] + 1, 0),
                   spots, i + 1, size)

\* insert_spots without the check that size_tree is empty
InsertSpotsUnchecked(self, spots, size) ==
    update_offset_tree(
      [self EXCEPT !.size_tree = SpotsLoop(@, spots, 1, size)], 0)

insert_spots(self, spots, size) ==
    IF self.size_tree # EmptyTree THEN Panic(self)
    ELSE update_offset_tree(
           [self EXCEPT !.size_tree = SpotsLoop(@, spots, 1, size)], 0)

\* InsertLoop without the `next range` step: the tail of a partially covered
\* run is not re-inserted at `end + 1`
RECURSIVE InsertLoopDropsTail(_, _, _, _, _, _)
InsertLoopDropsTail(self, overlapping_ranges, i, end, size, should_insert) ==
    IF i > Len(overlapping_ranges) \/ self.panicked
    THEN [self |-> self, should_insert |-> should_insert]
    ELSE LET range == overlapping_ranges[i]
             first_pass_done == i > 1
             flag == IF ~first_pass_done THEN range.size # size ELSE should_insert
             merged == IF first_pass_done /\ (end >= range.start \/ size = range.size)
                       THEN remove_index(self, range.start)
                       ELSE self
         IN InsertLoopDropsTail(merged, overlapping_ranges, i + 1, end, size, flag)

\* InsertLoop with the tail of a split run re-inserted at `end` rather than
\* at `end + 1`
RECURSIVE InsertLoopSplitsAtEnd(_, _, _, _, _, _)
InsertLoopSplitsAtEnd(self, overlapping_ranges, i, end, size, should_insert) ==
    IF i > Len(overlapping_ranges) \/ self.panicked
    THEN [self |-> self, should_insert |-> should_insert]
    ELSE LET range == overlapping_ranges[i]
             first_pass_done == i > 1
             flag == IF ~first_pass_done THEN range.size # size ELSE should_insert
             merged == IF first_pass_done /\ (end >= range.start \/ size = range.size)
                       THEN remove_index(self, range.start)
                       ELSE self
             split == IF ~merged.panicked
                         /\ range.end > end /\ end >= range.start
                         /\ range.size # size
                      THEN [merged EXCEPT
                              !.size_tree = TreeInsert(@, end, range.size)]
                      ELSE merged
         IN InsertLoopSplitsAtEnd(split, overlapping_ranges, i + 1, end, size, flag)

\* InsertLoop with should_insert assigned on every range rather than on the
\* first one only
RECURSIVE InsertLoopFlagsEveryRange(_, _, _, _, _, _)
InsertLoopFlagsEveryRange(self, overlapping_ranges, i, end, size, should_insert) ==
    IF i > Len(overlapping_ranges) \/ self.panicked
    THEN [self |-> self, should_insert |-> should_insert]
    ELSE LET range == overlapping_ranges[i]
             first_pass_done == i > 1
             flag == range.size # size
             merged == IF first_pass_done /\ (end >= range.start \/ size = range.size)
                       THEN remove_index(self, range.start)
                       ELSE self
             split == IF ~merged.panicked
                         /\ range.end > end /\ end >= range.start
                         /\ range.size # size
                      THEN [merged EXCEPT
                              !.size_tree = TreeInsert(@, end + 1, range.size)]
                      ELSE merged
         IN InsertLoopFlagsEveryRange(split, overlapping_ranges, i + 1, end,
                                      size, flag)

\* the `for Range {..} in overlapping_ranges` loop of insert; the result is
\* the list and the value of should_insert after the loop
RECURSIVE InsertLoop(_, _, _, _, _, _)
InsertLoop(self, overlapping_ranges, i, end, size, should_insert) ==
    IF i > Len(overlapping_ranges) \/ self.panicked
    THEN [self |-> self, should_insert |-> should_insert]
    ELSE LET range == overlapping_ranges[i]
             first_pass_done == i > 1
             \* previous range
             flag == IF ~first_pass_done THEN range.size # size ELSE should_insert
             merged == IF first_pass_done /\ (end >= range.start \/ size = range.size)
                       THEN remove_index(self, range.start)
                       ELSE self
             \* next range
             split == IF ~merged.panicked
                         /\ range.end > end /\ end >= range.start
                         /\ range.size # size
                      THEN [merged EXCEPT
                              !.size_tree = TreeInsert(@, end + 1, range.size)]
                      ELSE merged
         IN InsertLoop(split, overlapping_ranges, i + 1, end, size, flag)

\* InsertPlaceholder rewriting the placeholder at `start` alone
InsertPlaceholderRewritesStart(self, start, size) ==
    IF start = 0 \/ (start - 1) \notin DOMAIN self.size_tree THEN Panic(self)
    ELSE LET group_size == self.size_tree[start - 1]
         IN IF group_size = size
            THEN [self EXCEPT !.size_tree = TreeInsert(EmptyTree, 0, size),
                              !.offset_tree = TreeInsert(EmptyTree, 0, 0)]
            ELSE update_offset_tree(
                   [self EXCEPT !.size_tree = TreeInsert(@, start, size)],
                   start)

\* InsertPlaceholder with the collapsed run written at `start` rather than at 0
InsertPlaceholderCollapsesAtStart(self, start, size) ==
    IF start = 0 \/ (start - 1) \notin DOMAIN self.size_tree THEN Panic(self)
    ELSE LET group_size == self.size_tree[start - 1]
         IN IF group_size = size
            THEN [self EXCEPT !.size_tree = TreeInsert(EmptyTree, start, size),
                              !.offset_tree = TreeInsert(EmptyTree, 0, 0)]
            ELSE update_offset_tree(
                   [self EXCEPT !.size_tree =
                      [k \in DOMAIN @ |-> IF @[k] = 0 THEN size ELSE @[k]]],
                   start)

\* insert, the branch taken when size_tree holds Some(0) at `start`
InsertPlaceholder(self, start, size) ==
    IF start = 0 \/ (start - 1) \notin DOMAIN self.size_tree THEN Panic(self)
    ELSE LET group_size == self.size_tree[start - 1]
         IN IF group_size = size
            THEN [self EXCEPT !.size_tree = TreeInsert(EmptyTree, 0, size),
                              !.offset_tree = TreeInsert(EmptyTree, 0, 0)]
            ELSE update_offset_tree(
                   [self EXCEPT !.size_tree =
                      [k \in DOMAIN @ |-> IF @[k] = 0 THEN size ELSE @[k]]],
                   start)

\* insert, the general case (lines 112 to 157)
InsertGeneral(self, start, end, size) ==
    LET from == IF start = 0 THEN 0 ELSE start - 1
    IN IF RangesWithinPanics(self.size_tree, from, end + 1) THEN Panic(self)
       ELSE LET overlapping_ranges == ranges_within(self.size_tree, from, end + 1)
                looped == InsertLoop(self, overlapping_ranges, 1, end, size, FALSE)
                inserted == IF looped.should_insert
                            THEN [looped.self EXCEPT
                                    !.size_tree = TreeInsert(@, start, size)]
                            ELSE looped.self
            IN IF looped.self.panicked THEN looped.self
               ELSE update_offset_tree(inserted, start)

insert(self, start, end, size) ==
    IF self.size_tree = EmptyTree
    THEN update_offset_tree(
           [self EXCEPT !.size_tree = TreeInsert(@, 0, size)], start)
    ELSE IF start \in DOMAIN self.size_tree /\ self.size_tree[start] = 0
    THEN InsertPlaceholder(self, start, size)
    ELSE InsertGeneral(self, start, end, size)

\* ------------------------------------------------------------------------
\* Queries.  A query panics or returns; Returned(v) and QueryPanic are the two
\* outcomes.
\* ------------------------------------------------------------------------
Item(index, size, offset) == [index |-> index, size |-> size, offset |-> offset]

Returned(value) == [panicked |-> FALSE, value |-> value]
QueryPanic == [panicked |-> TRUE, value |-> << >>]

\* range_size_and_offset panics when the floor lookup finds nothing or the
\* offset tree lacks the key found
RangeSizeAndOffsetPanics(self, index) ==
    \/ ~HasLte(self.size_tree, index)
    \/ lte(self.size_tree, index) \notin DOMAIN self.offset_tree

range_size_and_offset(self, index) ==
    LET range_index == lte(self.size_tree, index)
    IN [size |-> self.size_tree[range_index],
        offset |-> self.offset_tree[range_index],
        range_index |-> range_index]

offset_of(self, index) ==
    IF RangeSizeAndOffsetPanics(self, index) THEN QueryPanic
    ELSE LET r == range_size_and_offset(self, index)
         IN Returned((index - r.range_index) * r.size + r.offset)

total(self, index) ==
    IF RangeSizeAndOffsetPanics(self, index) THEN QueryPanic
    ELSE LET r == range_size_and_offset(self, index)
         IN Returned((index - r.range_index + 1) * r.size + r.offset)

item_at(self, index) ==
    IF RangeSizeAndOffsetPanics(self, index) THEN QueryPanic
    ELSE LET r == range_size_and_offset(self, index)
         IN Returned(Item(index, r.size, (index - r.range_index) * r.size + r.offset))

Max(a, b) == IF a >= b THEN a ELSE b
Min(a, b) == IF a <= b THEN a ELSE b

\* the loop of index_range without the clipping of a run to start_index: the
\* items of the first run are pushed from the start of the run
RECURSIVE IndexRangeLoopUnclipped(_, _, _, _, _)
IndexRangeLoopUnclipped(ranges, i, start_index, end_index, result) ==
    IF i > Len(ranges) THEN result
    ELSE LET range == ranges[i]
             start == range.start
             end == Min(range.end, end_index)
             pushed == IF start > end THEN << >>
                       ELSE [n \in 1..(end - start + 1) |->
                               Item(start + n - 1, range.size, 0)]
         IN IndexRangeLoopUnclipped(ranges, i + 1, start_index, end_index,
                                    result \o pushed)

\* the `for range in ranges` loop of index_range
RECURSIVE IndexRangeLoop(_, _, _, _, _)
IndexRangeLoop(ranges, i, start_index, end_index, result) ==
    IF i > Len(ranges) THEN result
    ELSE LET range == ranges[i]
             start == Max(start_index, range.start)
             end == Min(range.end, end_index)
             pushed == IF start > end THEN << >>
                       ELSE [n \in 1..(end - start + 1) |->
                               Item(start + n - 1, range.size, 0)]
         IN IndexRangeLoop(ranges, i + 1, start_index, end_index, result \o pushed)

index_range(self, start_index, end_index) ==
    IF self.size_tree = EmptyTree THEN Returned(<< Item(0, 0, 0) >>)
    ELSE IF RangesWithinPanics(self.size_tree, start_index, end_index) THEN QueryPanic
    ELSE Returned(IndexRangeLoop(ranges_within(self.size_tree, start_index, end_index),
                                 1, start_index, end_index, << >>))

\* the `for index in start_index..=end_index` loop of range
RECURSIVE RangeWalk(_, _, _, _, _, _)
RangeWalk(index, end_index, offset, size, end_offset, result) ==
    IF index > end_index \/ offset > end_offset THEN result
    ELSE RangeWalk(index + 1, end_index, offset + size, size, end_offset,
                   Append(result, Item(index, size, offset)))

\* the `for range in ranges_within(&self.offset_tree, ..)` loop of range; a
\* range of the offset tree carries the run's offset in its `size` field
RECURSIVE RangeLoop(_, _, _, _, _, _, _, _)
RangeLoop(self, ranges, i, start_offset, end_offset, min_index, max_index, result) ==
    IF i > Len(ranges) THEN Returned(result)
    ELSE LET range == ranges[i]
         IN IF range.start \notin DOMAIN self.size_tree THEN QueryPanic
            ELSE LET size == self.size_tree[range.start]
                     advance == range.size < start_offset
                 IN IF advance /\ size = 0 THEN QueryPanic  \* division by zero
                    ELSE LET index1 == IF advance
                                       THEN range.start + ((start_offset - range.size) \div size)
                                       ELSE range.start
                             offset1 == IF advance
                                        THEN range.size + (index1 - range.start) * size
                                        ELSE range.size
                             clip == index1 < min_index
                             index2 == IF clip THEN min_index ELSE index1
                             offset2 == IF clip THEN offset1 + (min_index - index1) * size
                                        ELSE offset1
                         IN IF size = 0
                            THEN Returned(Append(result, Item(index2, 0, offset2)))
                            ELSE RangeLoop(self, ranges, i + 1, start_offset, end_offset,
                                           min_index, max_index,
                                           RangeWalk(index2, Min(range.end, max_index),
                                                     offset2, size, end_offset, result))

range(self, start_offset, end_offset, min_index, max_index) ==
    IF ~HasLte(self.pixel_tree, start_offset) THEN QueryPanic
    ELSE IF ~\E p \in DOMAIN self.pixel_tree : p >= end_offset THEN QueryPanic
    ELSE LET start_index == self.pixel_tree[lte(self.pixel_tree, start_offset)]
             end_index == self.pixel_tree[
                            SetMin({p \in DOMAIN self.pixel_tree : p >= end_offset})]
         IN IF RangesWithinPanics(self.offset_tree, start_index, end_index)
            THEN QueryPanic
            ELSE RangeLoop(self, ranges_within(self.offset_tree, start_index, end_index),
                           1, start_offset, end_offset, min_index, max_index, << >>)

\* ------------------------------------------------------------------------
\* State
\* ------------------------------------------------------------------------
\* the three maps of the list, whether a call on it has panicked, the last
\* call made (operation, arguments and, for insert, the Size Index it was made
\* on) with what it returned, and the number of mutating calls made so far
VARIABLES size_tree, offset_tree, pixel_tree, panicked, call, ret, calls

vars == << size_tree, offset_tree, pixel_tree, panicked, call, ret, calls >>

list == [size_tree |-> size_tree, offset_tree |-> offset_tree,
         pixel_tree |-> pixel_tree, panicked |-> panicked]

Becomes(self) ==
    /\ size_tree' = self.size_tree
    /\ offset_tree' = self.offset_tree
    /\ pixel_tree' = self.pixel_tree
    /\ panicked' = self.panicked

NoCall == [op |-> "new"]
NoRet == << >>

Init ==
    /\ size_tree = new.size_tree
    /\ offset_tree = new.offset_tree
    /\ pixel_tree = new.pixel_tree
    /\ panicked = new.panicked
    /\ call = NoCall
    /\ ret = NoRet
    /\ calls = 0

\* A call is made on a list that has not panicked.  offset_of, total and
\* item_at take the list by value, so no call follows them; index_range and
\* range leave the list as it was, so whatever follows them is reachable
\* without them, and the model makes a query the last call of a behaviour.
Usable == ~panicked /\ call.op \in {"new", "insert", "insert_spots"}

Insert(start, end, size) ==
    /\ Usable
    /\ Becomes(insert(list, start, end, size))
    /\ call' = [op |-> "insert", start |-> start, end |-> end, size |-> size,
                before |-> size_tree]
    /\ ret' = NoRet
    /\ calls' = calls + 1

\* the lists of at most MaxSpots indices
SpotLists == UNION {[1..n -> Indices] : n \in 0..MaxSpots}

InsertSpots(spots, size) ==
    /\ Usable
    /\ Becomes(insert_spots(list, spots, size))
    /\ call' = [op |-> "insert_spots", spots |-> spots, size |-> size]
    /\ ret' = NoRet
    /\ calls' = calls + 1

\* a query leaves the trees alone; a panic in it is as fatal as any other
Answers(outcome) ==
    /\ panicked' = outcome.panicked
    /\ ret' = outcome.value
    /\ UNCHANGED << size_tree, offset_tree, pixel_tree, calls >>

\* offset_of, total and item_at take the list by value: no call follows them
OffsetOf(index) ==
    /\ Usable
    /\ call' = [op |-> "offset_of", index |-> index]
    /\ Answers(LET r == offset_of(list, index)
               IN [r EXCEPT !.value = IF r.panicked THEN << >> ELSE << @ >>])

Total(index) ==
    /\ Usable
    /\ call' = [op |-> "total", index |-> index]
    /\ Answers(LET r == total(list, index)
               IN [r EXCEPT !.value = IF r.panicked THEN << >> ELSE << @ >>])

ItemAt(index) ==
    /\ Usable
    /\ call' = [op |-> "item_at", index |-> index]
    /\ Answers(LET r == item_at(list, index)
               IN [r EXCEPT !.value = IF r.panicked THEN << >> ELSE << @ >>])

IndexRange(start_index, end_index) ==
    /\ Usable
    /\ call' = [op |-> "index_range", start_index |-> start_index,
                end_index |-> end_index]
    /\ Answers(index_range(list, start_index, end_index))

Range(start_offset, end_offset, min_index, max_index) ==
    /\ Usable
    /\ call' = [op |-> "range", start_offset |-> start_offset,
                end_offset |-> end_offset, min_index |-> min_index,
                max_index |-> max_index]
    /\ Answers(range(list, start_offset, end_offset, min_index, max_index))

\* insert with any arguments
InsertAny ==
    /\ calls < MaxCalls
    /\ \E start \in Indices, end \in Indices, size \in Sizes : Insert(start, end, size)

\* insert_spots with any arguments
InsertSpotsAny ==
    /\ calls < MaxCalls
    /\ \E spots \in SpotLists, size \in Sizes : InsertSpots(spots, size)

\* insert with start <= end and size > 0, as one of at most `most` calls
InsertValidUpTo(most) ==
    /\ calls < most
    /\ \E start \in Indices, end \in Indices, size \in Sizes \ {0} :
          /\ start <= end
          /\ Insert(start, end, size)

InsertValid == InsertValidUpTo(MaxInserts)

\* insert_spots with size > 0, among the first MaxCalls calls
InsertSpotsValid ==
    /\ calls < MaxCalls
    /\ \E spots \in SpotLists, size \in Sizes \ {0} : InsertSpots(spots, size)

PointQuery ==
    \E index \in Indices : OffsetOf(index) \/ Total(index) \/ ItemAt(index)

IndexRangeQuery ==
    \E start_index \in Indices, end_index \in Indices :
       IndexRange(start_index, end_index)

RangeQuery ==
    \E start_offset \in Offsets, end_offset \in Offsets,
       min_index \in Indices, max_index \in Indices \cup {LAST_RANGE_END} :
       Range(start_offset, end_offset, min_index, max_index)

\* every call, with any arguments
Next == InsertAny \/ InsertSpotsAny \/ PointQuery \/ IndexRangeQuery \/ RangeQuery

Spec == Init /\ [][Next]_vars

\* the mutating calls alone
NextMutation == InsertAny \/ InsertSpotsAny

SpecMutation == Init /\ [][NextMutation]_vars

\* the mutating calls and index_range
NextIndexRange == InsertAny \/ InsertSpotsAny \/ IndexRangeQuery

SpecIndexRange == Init /\ [][NextIndexRange]_vars

\* lists built by insert alone (start <= end, size > 0)
SpecInsert == Init /\ [][InsertValid]_vars

\* lists built by insert_spots and insert with start <= end and size > 0
NextSpots == InsertSpotsValid \/ InsertValid

SpecSpots == Init /\ [][NextSpots]_vars

\* lists built by insert alone (start <= end, size > 0), and the point queries
NextInsertPoint == InsertValid \/ PointQuery

SpecInsertPoint == Init /\ [][NextInsertPoint]_vars

\* lists built by insert alone (start <= end, size > 0), and range
NextInsertRange == InsertValid \/ RangeQuery

SpecInsertRange == Init /\ [][NextInsertRange]_vars

\* lists built by at most MaxCalls calls of insert_spots and insert (start <=
\* end, size > 0), and range
NextSpotsRange == InsertSpotsValid \/ InsertValidUpTo(MaxCalls) \/ RangeQuery

SpecSpotsRange == Init /\ [][NextSpotsRange]_vars

\* ------------------------------------------------------------------------
\* What the three maps stand for: the size of the run an item lies in, and an
\* item's pixel offset, both read from the Size Index alone.
\* ------------------------------------------------------------------------
HasRun(tree, i) == \E k \in DOMAIN tree : k <= i

RunSize(tree, i) == tree[SetMax({k \in DOMAIN tree : k <= i})]

\* the sum of the run sizes of the items 0 .. i-1
RECURSIVE PixelOffset(_, _)
PixelOffset(tree, i) ==
    IF i = 0 THEN 0 ELSE PixelOffset(tree, i - 1) + RunSize(tree, i - 1)

\* the last call was `op` and it returned (it did not panic)
Completed(op) == call.op = op /\ ~panicked

\* the last call was a mutating call and it returned
Mutated == Completed("insert") \/ Completed("insert_spots")

\* the keys of a tree in pairs of neighbours
Consecutive(tree, k1, k2) ==
    /\ k1 \in DOMAIN tree /\ k2 \in DOMAIN tree /\ k1 < k2
    /\ ~\E k \in DOMAIN tree : k1 < k /\ k < k2

\* whether the last call, an insert, rewrote the placeholders: it found a
\* size-0 placeholder at `start` and a preceding run of another size
RewritesPlaceholders ==
    /\ call.start \in DOMAIN call.before
    /\ call.before[call.start] = 0
    /\ call.start > 0 /\ (call.start - 1) \in DOMAIN call.before
    /\ call.before[call.start - 1] # call.size

\* C1: after insert(start, end, size) with start <= end returns, every index
\* of start..end lies in a Size Index run whose size is `size`.
C1_InsertSetsRange ==
    (Completed("insert") /\ call.start <= call.end) =>
       \A i \in call.start..call.end :
          HasRun(size_tree, i) /\ RunSize(size_tree, i) = call.size

\* C1, amended: after insert(start, end, size) with start <= end returns,
\* every index of start..end lies in a Size Index run whose size is `size`;
\* when the call rewrote the placeholders, this is stated only of the indices
\* below the next key that followed `start`.
C1_InsertSetsRangeUpToNextKey ==
    (Completed("insert") /\ call.start <= call.end) =>
       \A i \in call.start..call.end :
          (RewritesPlaceholders =>
              ~\E k \in DOMAIN call.before : call.start < k /\ k <= i)
          => HasRun(size_tree, i) /\ RunSize(size_tree, i) = call.size

\* an insert on a list that holds placeholders overwrote the start of at least
\* one run inside start..end
C1_Witness ==
    /\ Completed("insert") /\ call.start < call.end
    /\ ~RewritesPlaceholders
    /\ \E k \in DOMAIN call.before : call.before[k] = 0
    /\ \E k \in DOMAIN call.before : call.start < k /\ k <= call.end
    /\ \A i \in call.start..call.end : RunSize(size_tree, i) = call.size

\* C3: after an insert, no two consecutive keys of Size Index carry the same
\* size, except for a size-0 placeholder key right after its originating run.
C3_NoAdjacentEqualSizes ==
    Completed("insert") =>
       \A k1 \in DOMAIN size_tree, k2 \in DOMAIN size_tree :
          (Consecutive(size_tree, k1, k2) /\ size_tree[k1] = size_tree[k2]) =>
             (size_tree[k2] = 0 /\ k2 = k1 + 1)

\* C4: after a completed insert or insert_spots, for consecutive keys
\* k1 < k2 of Offset Index, offset(k2) = offset(k1) + (k2 - k1) * size(k1),
\* with size(k1) read from Size Index, and so offset(k2) >= offset(k1).
C4_OffsetsFollowSizes ==
    Mutated =>
       \A k1 \in DOMAIN offset_tree, k2 \in DOMAIN offset_tree :
          Consecutive(offset_tree, k1, k2) =>
             /\ k1 \in DOMAIN size_tree
             /\ offset_tree[k2] = offset_tree[k1] + (k2 - k1) * size_tree[k1]
             /\ offset_tree[k2] >= offset_tree[k1]

\* C5: after a completed insert or insert_spots, Offset Index and Size Index
\* have the same key set.
C5_SameKeySet ==
    Mutated => DOMAIN offset_tree = DOMAIN size_tree

\* C6: after a completed insert or insert_spots, Pixel Index is the exact
\* inverse of Offset Index: as many entries, pixel_index[offset(k)] = k for
\* every key k of Offset Index, and no other entries.
C6_PixelIsInverse ==
    Mutated =>
       /\ Cardinality(DOMAIN pixel_tree) = Cardinality(DOMAIN offset_tree)
       /\ \A k \in DOMAIN offset_tree :
             /\ offset_tree[k] \in DOMAIN pixel_tree
             /\ pixel_tree[offset_tree[k]] = k
       /\ \A p \in DOMAIN pixel_tree :
             /\ pixel_tree[p] \in DOMAIN offset_tree
             /\ offset_tree[pixel_tree[p]] = p

\* C10: applying insert(start, end, size), start <= end, a second time leaves
\* the Size Index content the first application left.
C10_InsertIdempotent ==
    (Completed("insert") /\ call.start <= call.end) =>
       LET again == insert(list, call.start, call.end, call.size)
       IN ~again.panicked => again.size_tree = size_tree

\* C10, amended: unless the first application rewrote the placeholders,
\* applying insert(start, end, size), start <= end, a second time leaves the
\* Size Index content the first application left.
C10_InsertIdempotentOutsideRewrite ==
    (Completed("insert") /\ call.start <= call.end /\ ~RewritesPlaceholders) =>
       LET again == insert(list, call.start, call.end, call.size)
       IN ~again.panicked => again.size_tree = size_tree

\* a first application that changed a list of several runs, and a second
\* application that returns
C10_Witness ==
    /\ Completed("insert") /\ call.start <= call.end
    /\ ~RewritesPlaceholders
    /\ Cardinality(DOMAIN call.before) >= 2
    /\ call.before # size_tree
    /\ LET again == insert(list, call.start, call.end, call.size)
       IN ~again.panicked /\ again.size_tree = size_tree

\* C2: on a list built by insert alone, a value offset_of(i) returns is the
\* sum of the run sizes of items 0..i-1, a value total(i) returns is the sum
\* of the run sizes of items 0..i, and total(i) = offset_of(i) + the size of
\* the run containing i.
C2_OffsetOfAndTotal ==
    /\ Completed("offset_of") => ret[1] = PixelOffset(size_tree, call.index)
    /\ Completed("total") =>
          /\ ret[1] = PixelOffset(size_tree, call.index + 1)
          /\ ~offset_of(list, call.index).panicked
          /\ ret[1] = offset_of(list, call.index).value
                        + RunSize(size_tree, call.index)

\* total has answered for an item of a run that starts after another run
C2_Witness ==
    /\ Completed("total")
    /\ call.index > lte(size_tree, call.index)
    /\ lte(size_tree, call.index) > 0
    /\ Cardinality(DOMAIN size_tree) >= 3

\* the indices whose items a range query of the model can be asked about
\* (every size is at least 1, so an item at an offset up to MaxOffset has an
\* index up to MaxOffset)
QueriedIndices == 0..MaxOffset

\* C7: on a list built by insert alone, range(start_offset, end_offset,
\* min_index, max_index) with start_offset <= end_offset and end_offset not
\* above the largest Pixel Index key returns an Item for every index i of
\* min_index..max_index whose pixel offset lies in start_offset..end_offset.
C7_RangeReturnsEveryItem ==
    (/\ Completed("range")
     /\ call.start_offset <= call.end_offset
     /\ \E p \in DOMAIN pixel_tree : call.end_offset <= p) =>
       \A i \in QueriedIndices :
          (/\ call.min_index <= i /\ i <= call.max_index
           /\ call.start_offset <= PixelOffset(size_tree, i)
           /\ PixelOffset(size_tree, i) <= call.end_offset) =>
             \E n \in 1..Len(ret) : ret[n].index = i

\* C8: on a list built by insert alone, every Item range returns has the
\* size of the Size Index run containing its index and the cumulative offset
\* of that index, which is what item_at reports for it.
C8_RangeItemsAreExact ==
    Completed("range") =>
       \A n \in 1..Len(ret) :
          /\ ret[n].size = RunSize(size_tree, ret[n].index)
          /\ ret[n].offset = PixelOffset(size_tree, ret[n].index)
          /\ ~item_at(list, ret[n].index).panicked =>
                item_at(list, ret[n].index).value = ret[n]

\* C9: on a non-empty list, index_range(start_index, end_index) with
\* start_index <= end_index returns exactly one Item per index of
\* start_index..end_index, in ascending order, each with the size of the
\* run containing its index and offset 0.
C9_IndexRangeIsExact ==
    (/\ call.op = "index_range"
     /\ size_tree # EmptyTree
     /\ call.start_index <= call.end_index) =>
       /\ ~panicked
       /\ ret = [n \in 1..(call.end_index - call.start_index + 1) |->
                   Item(call.start_index + n - 1,
                        RunSize(size_tree, call.start_index + n - 1), 0)]

\* index_range has returned the items of three runs, starting inside the
\* first of them
C9_Witness ==
    /\ Completed("index_range")
    /\ size_tree # EmptyTree
    /\ call.start_index > lte(size_tree, call.start_index)
    /\ Cardinality({ret[n].size : n \in 1..Len(ret)}) >= 2
    /\ Cardinality({lte(size_tree, ret[n].index) : n \in 1..Len(ret)}) >= 3

\* the point queries: offset_of, total and item_at
PointOps == {"offset_of", "total", "item_at"}

\* C11: once an insert has completed on the list, offset_of(i), total(i) and
\* item_at(i) return for every index i: none of them panics.
C11_PointQueriesSucceed ==
    (call.op \in PointOps /\ calls >= 1) => ~panicked

\* whether the last call, an insert, found a size-0 placeholder at `start`
FoundPlaceholder ==
    call.start \in DOMAIN call.before /\ call.before[call.start] = 0

\* the indices a claim about every index is checked on: they reach past the
\* last key an insert can write
FrameIndices == 0..(MaxIndex + 2)

\* C12: an insert(start, end, size), start <= end, on a non-empty list with no
\* placeholder at `start` leaves every index below `start` and every index
\* above `end` with the run size it had before the call.
C12_InsertFrame ==
    (/\ Completed("insert") /\ call.start <= call.end
     /\ call.before # EmptyTree /\ ~FoundPlaceholder) =>
       \A i \in FrameIndices :
          (i < call.start \/ i > call.end) =>
             /\ HasRun(size_tree, i)
             /\ RunSize(size_tree, i) = RunSize(call.before, i)

\* an insert deleted a covered run and split a partially covered one, whose
\* tail now starts at end + 1 with the size it had
C12_Witness ==
    /\ Completed("insert") /\ call.start <= call.end
    /\ call.before # EmptyTree /\ ~FoundPlaceholder
    /\ \E k \in DOMAIN call.before :
          call.start < k /\ k <= call.end /\ k \notin DOMAIN size_tree
    /\ (call.end + 1) \in DOMAIN size_tree
    /\ (call.end + 1) \notin DOMAIN call.before
    /\ size_tree[call.end + 1] = RunSize(call.before, call.end + 1)
    /\ size_tree[call.end + 1] # call.size

\* C13: every Item that range(start_offset, end_offset, min_index, max_index)
\* returns has min_index <= index <= max_index.
C13_RangeItemsWithinIndices ==
    Completed("range") =>
       \A n \in 1..Len(ret) :
          call.min_index <= ret[n].index /\ ret[n].index <= call.max_index

\* the indices of a list of spots
SpotSet(spots) == {spots[n] : n \in 1..Len(spots)}

\* C14: insert_spots(spots, size), size > 0, on the empty list returns and
\* leaves Size Index holding s -> size and s + 1 -> 0 for each spot s, and no
\* other entry.
C14_InsertSpotsWritesSpots ==
    (call.op = "insert_spots" /\ calls = 1 /\ call.size > 0) =>
       /\ ~panicked
       /\ DOMAIN size_tree =
             SpotSet(call.spots) \cup {s + 1 : s \in SpotSet(call.spots)}
       /\ \A s \in SpotSet(call.spots) :
             size_tree[s] = call.size /\ size_tree[s + 1] = 0

\* C15: an insert_spots call on a list whose Size Index is non-empty panics
\* and leaves Size Index, Offset Index and Pixel Index as they were.
C15_InsertSpotsRejectsNonEmpty ==
    [][(/\ call'.op = "insert_spots" /\ calls' = calls + 1
        /\ size_tree # EmptyTree) =>
          /\ panicked'
          /\ UNCHANGED << size_tree, offset_tree, pixel_tree >>]_vars

\* insert_spots was called after a call that had left the list non-empty, and
\* panicked
C15_Witness ==
    /\ call.op = "insert_spots" /\ calls >= 2
    /\ panicked
    /\ size_tree # EmptyTree /\ offset_tree # EmptyTree

\* C16: an insert(start, end, size) that finds size 0 at key `start` and
\* another size than `size` at key start - 1 leaves the key set of Size Index
\* as it was, every entry that held 0 holding `size`, and every other entry
\* unchanged.
C16_RewriteReplacesEveryPlaceholder ==
    (call.op = "insert" /\ RewritesPlaceholders) =>
       /\ ~panicked
       /\ DOMAIN size_tree = DOMAIN call.before
       /\ \A k \in DOMAIN call.before :
             size_tree[k] = IF call.before[k] = 0 THEN call.size
                            ELSE call.before[k]

\* a rewrite of two placeholders or more, with size > 0
C16_Witness ==
    /\ Completed("insert") /\ RewritesPlaceholders
    /\ call.size > 0
    /\ \E k \in DOMAIN call.before :
          k # call.start /\ call.before[k] = 0 /\ size_tree[k] = call.size
    /\ size_tree[call.start] = call.size

\* the list is the single run {0 -> size}
Collapsed(size) == DOMAIN size_tree = {0} /\ size_tree[0] = size

\* the keys of the sized runs that precede key k
SizedBefore(tree, k) == {j \in DOMAIN tree : j < k /\ tree[j] # 0}

\* in `tree`, every placeholder follows a run whose size is `size`; the run a
\* placeholder follows is the nearest run before it that is not a placeholder
EveryPlaceholderFollows(tree, size) ==
    \A k \in DOMAIN tree :
       tree[k] = 0 =>
          /\ SizedBefore(tree, k) # {}
          /\ tree[SetMax(SizedBefore(tree, k))] = size

\* C17: an insert(start, end, size) that finds a placeholder at key `start`
\* collapses the list to the single run {0 -> size} exactly when, in the list
\* it is called on, every placeholder follows a run of size `size`.
C17_CollapseOnlyWhenUniform ==
    (Completed("insert") /\ FoundPlaceholder) =>
       (Collapsed(call.size) <=> EveryPlaceholderFollows(call.before, call.size))

\* C18: after every insert or insert_spots call that returned, a non-empty
\* Size Index holds key 0, so the floor lookup of any index finds a run.
C18_SizeIndexHoldsZero ==
    (Mutated /\ size_tree # EmptyTree) =>
       /\ 0 \in DOMAIN size_tree
       /\ \A i \in FrameIndices : HasLte(size_tree, i)

\* an insert that rewrote the run at key 0, or collapsed a list of several
\* runs, has left key 0 in place
C18_Witness ==
    /\ Completed("insert")
    /\ Cardinality(DOMAIN call.before) >= 2
    /\ \/ call.start = 0 /\ call.before[0] # call.size
       \/ FoundPlaceholder /\ Collapsed(call.size)
    /\ size_tree[0] = call.size

\* C19: on a list built by insert_spots and inserts with start <= end and
\* size > 0, every key of Size Index that holds 0 is the successor of another
\* key, and an insert that finds a placeholder at `start` does not panic.
C19_PlaceholderFollowsKey ==
    /\ ~panicked =>
          \A k \in DOMAIN size_tree :
             size_tree[k] = 0 => (k > 0 /\ (k - 1) \in DOMAIN size_tree)
    /\ (call.op = "insert" /\ FoundPlaceholder) => ~panicked

\* the runs of Offset Index the last call, a range, enumerates; defined when
\* RangeEnumerates holds
RangeRuns ==
    LET start_index == pixel_tree[lte(pixel_tree, call.start_offset)]
        end_index == pixel_tree[SetMin({p \in DOMAIN pixel_tree :
                                          p >= call.end_offset})]
    IN ranges_within(offset_tree, start_index, end_index)

\* the last call, a range, found its two ends in Pixel Index and its runs in
\* Offset Index
RangeEnumerates ==
    /\ call.op = "range"
    /\ HasLte(pixel_tree, call.start_offset)
    /\ \E p \in DOMAIN pixel_tree : p >= call.end_offset
    /\ ~RangesWithinPanics(offset_tree,
                           pixel_tree[lte(pixel_tree, call.start_offset)],
                           pixel_tree[SetMin({p \in DOMAIN pixel_tree :
                                                p >= call.end_offset})])

\* the i-th run range enumerates is a placeholder run and every run before it
\* has a size above 0, so the loop of range reaches it
ReachesPlaceholder(i) ==
    /\ i \in 1..Len(RangeRuns)
    /\ \A j \in 1..i : RangeRuns[j].start \in DOMAIN size_tree
    /\ size_tree[RangeRuns[i].start] = 0
    /\ \A j \in 1..(i - 1) : size_tree[RangeRuns[j].start] # 0

\* C20: a range call that reaches a placeholder run does not panic; the last
\* item it returns is the one item of size 0, at the start index of that run
\* or at min_index when that is higher, and every other item it returns comes
\* from a run before the placeholder run.
C20_RangeStopsAtPlaceholder ==
    RangeEnumerates =>
       \A i \in 1..Len(RangeRuns) :
          ReachesPlaceholder(i) =>
             /\ ~panicked
             /\ Len(ret) >= 1
             /\ ret[Len(ret)].size = 0
             /\ ret[Len(ret)].index = Max(RangeRuns[i].start, call.min_index)
             /\ \A n \in 1..(Len(ret) - 1) :
                   ret[n].size # 0 /\ ret[n].index < RangeRuns[i].start

====
